---- MODULE Spec2Model ----
(***************************************************************************)
(* A model of the binary-file analyzer of src/cpp_analyzer/src/main.cpp:   *)
(* calculateEntropy, checkAlignment, analyzeFile, printAnalysis,           *)
(* compareFiles and main.                                                  *)
(*                                                                         *)
(* Conventions.                                                            *)
(*  - A byte buffer (std::vector<uint8_t>) is a sequence over 0..255.  The *)
(*    source indexes from 0, sequences from 1: data[i] of the source is    *)
(*    data[i + 1] here, and every offset named below is the source's.      *)
(*  - A float is a fixed-point integer counting units of 1/Scale, so the   *)
(*    entropy 6.0 is 6 * Scale.  log2 is computed by the binary-logarithm  *)
(*    digit recurrence, truncated to FracBits bits.                        *)
(*  - A uint32_t is a record [hi, lo] of two 16-bit halves, because the    *)
(*    value range 0 .. 2^32 - 1 does not fit TLC's 32-bit integers.        *)
(*  - An uninitialized size_t is any value of Indeterminate.               *)
(***************************************************************************)
EXTENDS Integers, Sequences, FiniteSets, TLC

VARIABLES argc, pc, result, result2, stdout, stderr, exitCode, calls

vars == <<argc, pc, result, result2, stdout, stderr, exitCode, calls>>

(***************************************************************************)
(* Bounds of the model.                                                    *)
(***************************************************************************)
\* Largest argc tried (argc counts the program name: argc = 1 is "no path").
MaxArgc == 4
\* Longest file of the one-file specification (three chunks at 129 bytes).
MaxLen == 130
\* Longest file of the two-file specification.
MaxRunLen == 9
\* Largest value an uninitialized size_t is allowed to take in the model.
MaxGarbage == 3

(***************************************************************************)
(* Program constants.                                                      *)
(***************************************************************************)
chunkSize == 64
SmallIntLimit == 100000
BarWidth == 10

\* Fixed-point representation of float.
FracBits == 14
Scale == 2 ^ FracBits

Min(a, b) == IF a < b THEN a ELSE b

Range(s) == {s[i] : i \in DOMAIN s}

(***************************************************************************)
(* float arithmetic, in units of 1/Scale.                                  *)
(***************************************************************************)
\* static_cast<float>(n) of an integer n.
ToFloat(n) == n * Scale

\* x * y of two floats.
FMul(x, y) == (x * y) \div Scale

\* static_cast<int>(x) of a float: truncation toward zero.
ToInt(x) == IF x >= 0 THEN x \div Scale ELSE -((-x) \div Scale)

\* floor(log2(n)) of an integer n >= 1: the exponent of the float.
RECURSIVE Exponent(_)
Exponent(n) == IF n < 2 THEN 0 ELSE 1 + Exponent(n \div 2)

\* The fraction bits of log2(m), m a mantissa in [1.0, 2.0): square the
\* mantissa, emit a 1 and halve it whenever the square reaches 2.0.  st.m is
\* the mantissa, st.bit the weight of the next bit, st.acc the bits so far.
RECURSIVE Log2Mantissa(_)
Log2Mantissa(st) ==
  IF st.bit = 0 THEN st.acc
  ELSE LET sq == (st.m * st.m) \div Scale
       IN  IF sq >= 2 * Scale
             THEN Log2Mantissa([m   |-> sq \div 2,
                                bit |-> st.bit \div 2,
                                acc |-> st.acc + st.bit])
             ELSE Log2Mantissa([m   |-> sq,
                                bit |-> st.bit \div 2,
                                acc |-> st.acc])

\* std::log2(x) of a float x > 0 (raw value x >= 1).
Log2(x) ==
  LET e == Exponent(x)
      m == (x * Scale) \div (2 ^ e)
  IN  (e - FracBits) * Scale
        + Log2Mantissa([m |-> m, bit |-> Scale \div 2, acc |-> 0])

(***************************************************************************)
(* calculateEntropy (main.cpp:34-52)                                       *)
(***************************************************************************)
\* std::map<uint8_t, int> frequencies after the counting loop.
Frequencies(data) ==
  [b \in Range(data) |-> Cardinality({i \in DOMAIN data : data[i] = b})]

\* float p = count / total, total = static_cast<float>(data.size()): the
\* float count divided by the whole number total.
Probability(count, size) == ToFloat(count) \div size

\* Faulty variant of EntropyStep: entropy += p * std::log2(p).
EntropyStepAdds(entropy, count, size) ==
  LET p == Probability(count, size)
  IN  entropy + FMul(p, Log2(p))

\* One iteration of the summing loop: entropy -= p * std::log2(p).
EntropyStep(entropy, count, size) ==
  LET p == Probability(count, size)
  IN  entropy - FMul(p, Log2(p))

\* The summing loop over the map, in ascending key order.  st.keys are the
\* keys still to visit, st.entropy is the running sum.
RECURSIVE EntropyLoop(_, _, _)
EntropyLoop(freq, size, st) ==
  IF st.keys = {} THEN st.entropy
  ELSE LET byte == CHOOSE b \in st.keys : \A c \in st.keys : b <= c
       IN  EntropyLoop(freq, size,
             [keys    |-> st.keys \ {byte},
              entropy |-> EntropyStep(st.entropy, freq[byte], size)])

calculateEntropy(data) ==
  IF Len(data) = 0 THEN 0
  ELSE LET frequencies == Frequencies(data)
       IN  EntropyLoop(frequencies, Len(data),
                       [keys |-> DOMAIN frequencies, entropy |-> 0])

(***************************************************************************)
(* checkAlignment (main.cpp:64-92)                                         *)
(***************************************************************************)
\* uint32_t val after the four |= of bytes data[i] .. data[i+3]: the shifted
\* bytes occupy disjoint bits, so each | is a sum.
Reconstruct(data, i) ==
  [lo |-> data[i + 1] + 256 * data[i + 2],
   hi |-> data[i + 3] + 256 * data[i + 4]]

\* val < k for a uint32_t val and a constant 0 <= k < 2^32.
LessU32(val, k) ==
  \/ val.hi < k \div 65536
  \/ val.hi = k \div 65536 /\ val.lo < k % 65536

\* Faulty variant of Stride4Loop: i < data.size() - 4, which skips the last window
\* of a buffer whose size is a multiple of 4.
RECURSIVE Stride4LoopStopsEarly(_, _)
Stride4LoopStopsEarly(data, st) ==
  IF st.i < Len(data) - 4
    THEN LET val == Reconstruct(data, st.i)
         IN  Stride4LoopStopsEarly(data,
               [i       |-> st.i + 4,
                score   |-> IF LessU32(val, SmallIntLimit)
                              THEN st.score + 1 ELSE st.score,
                windows |-> st.windows \cup {st.i}])
    ELSE st

\* for (size_t i = 0; i <= data.size() - 4; i += 4), entered only when
\* data.size() >= 4.  st.i is the loop variable, st.score the score and
\* st.windows the offsets visited so far.
RECURSIVE Stride4Loop(_, _)
Stride4Loop(data, st) ==
  IF st.i <= Len(data) - 4
    THEN LET val == Reconstruct(data, st.i)
         IN  Stride4Loop(data,
               [i       |-> st.i + 4,
                score   |-> IF LessU32(val, SmallIntLimit)
                              THEN st.score + 1 ELSE st.score,
                windows |-> st.windows \cup {st.i}])
    ELSE st

\* Faulty variant of AlignTrace: the test align == 4 is dropped, so every stride
\* gets the 4-byte score.
AlignTraceAnyStride(data, align) ==
  IF Len(data) >= 4
    THEN Stride4Loop(data, [i |-> 0, score |-> 0, windows |-> {}])
    ELSE [i |-> 0, score |-> 0, windows |-> {}]

\* The body of the loop over alignments, for one align.
AlignTrace(data, align) ==
  IF align = 4 /\ Len(data) >= 4
    THEN Stride4Loop(data, [i |-> 0, score |-> 0, windows |-> {}])
    ELSE [i |-> 0, score |-> 0, windows |-> {}]

AlignScore(data, align) == AlignTrace(data, align).score

\* std::map operator[] assignment: m[k] = v.
MapPut(m, k, v) ==
  [x \in (DOMAIN m) \cup {k} |-> IF x = k THEN v ELSE m[x]]

alignments == <<2, 4, 8>>

RECURSIVE AlignmentLoop(_, _, _)
AlignmentLoop(data, n, scores) ==
  IF n > Len(alignments) THEN scores
  ELSE AlignmentLoop(data, n + 1,
         MapPut(scores, alignments[n], AlignScore(data, alignments[n])))

checkAlignment(data, res) ==
  [res EXCEPT !.alignmentScores = AlignmentLoop(data, 1, res.alignmentScores)]

(***************************************************************************)
(* analyzeFile (main.cpp:100-128)                                          *)
(***************************************************************************)
\* The values an uninitialized size_t may hold.
Indeterminate == 0 .. MaxGarbage

\* What std::ifstream file(filepath) finds: no openable file, or its bytes.
NoFile == [opened |-> FALSE, bytes |-> <<>>]
FileOf(bytes) == [opened |-> TRUE, bytes |-> bytes]

\* AnalysisResult result; (main.cpp:101): the string, the vectors and the map
\* are default-constructed empty, fileSize has no initializer.
DefaultResult(garbage) ==
  [filename        |-> "",
   fileSize        |-> garbage,
   rawData         |-> <<>>,
   entropyMap      |-> <<>>,
   alignmentScores |-> <<>>]

\* Faulty variant of ChunkLoop: i + chunkSize <= buffer.size(), which drops a final
\* chunk shorter than chunkSize.
RECURSIVE ChunkLoopDropsTail(_, _)
ChunkLoopDropsTail(buffer, st) ==
  IF st.i + chunkSize <= Len(buffer)
    THEN LET end   == Min(st.i + chunkSize, Len(buffer))
             chunk == SubSeq(buffer, st.i + 1, end)
         IN  ChunkLoopDropsTail(buffer,
               [i          |-> st.i + chunkSize,
                entropyMap |-> Append(st.entropyMap, calculateEntropy(chunk))])
    ELSE st.entropyMap

\* for (size_t i = 0; i < buffer.size(); i += chunkSize): the entropy map.
\* st.i is the loop variable, st.entropyMap the map so far.
RECURSIVE ChunkLoop(_, _)
ChunkLoop(buffer, st) ==
  IF st.i < Len(buffer)
    THEN LET end   == Min(st.i + chunkSize, Len(buffer))
             chunk == SubSeq(buffer, st.i + 1, end)
         IN  ChunkLoop(buffer,
               [i          |-> st.i + chunkSize,
                entropyMap |-> Append(st.entropyMap, calculateEntropy(chunk))])
    ELSE st.entropyMap

\* The report of analyzeFile(filepath) when the open yields `file` and the
\* uninitialized fileSize holds `garbage`.
analyzeFile(filepath, file, garbage) ==
  LET r0 == [DefaultResult(garbage) EXCEPT !.filename = filepath]
  IN  IF ~file.opened
        THEN r0
        ELSE LET buffer == file.bytes
                 r1 == [r0 EXCEPT !.rawData = buffer,
                                  !.fileSize = Len(buffer)]
                 r2 == [r1 EXCEPT !.entropyMap =
                       ChunkLoop(buffer, [i |-> 0,
                                          entropyMap |-> r1.entropyMap])]
             IN  checkAlignment(r2.rawData, r2)

\* The line analyzeFile writes to std::cerr, if any.
analyzeFileErr(filepath, file) ==
  IF ~file.opened THEN <<[kind |-> "FailedToOpen", path |-> filepath]>>
  ELSE <<>>

(***************************************************************************)
(* printAnalysis (main.cpp:130-152)                                        *)
(***************************************************************************)
\* The pairs of a std::map<int, int> in iteration (ascending key) order.
RECURSIVE MapPairs(_, _)
MapPairs(m, keys) ==
  IF keys = {} THEN <<>>
  ELSE LET k == CHOOSE a \in keys : \A b \in keys : a <= b
       IN  <<[align |-> k, score |-> m[k]]>> \o MapPairs(m, keys \ {k})

\* Faulty variant of Bars: the scale 2.5f instead of 1.25f.
BarsDoubled(e) == ToInt((5 * e) \div 2)

\* int bars = static_cast<int>(e * 1.25f); e * 1.25f is computed as 5e / 4.
Bars(e) == ToInt((5 * e) \div 4)

\* std::string(n, c) with an int n: a negative n converts to a size_t above
\* max_size() and the constructor throws std::length_error.
StringThrows(n) == n < 0

\* The entropy lines printed before the loop ends or a std::string throws
\* (the uncaught exception then ends the process in std::terminate).
RECURSIVE BarLoop(_, _, _)
BarLoop(entropyMap, i, out) ==
  IF i < Len(entropyMap)
    THEN LET e    == entropyMap[i + 1]
             bars == Bars(e)
         IN  IF StringThrows(bars) \/ StringThrows(BarWidth - bars)
               THEN [lines |-> out, thrown |-> TRUE]
               ELSE BarLoop(entropyMap, i + 1,
                      Append(out, [kind    |-> "Chunk",
                                   offset  |-> i * 64,
                                   filled  |-> bars,
                                   padding |-> BarWidth - bars,
                                   entropy |-> e]))
    ELSE [lines |-> out, thrown |-> FALSE]

printAnalysis(res) ==
  BarLoop(res.entropyMap, 0,
    << [kind |-> "File", filename |-> res.filename],
       [kind |-> "Size", size |-> res.fileSize],
       [kind |-> "AlignmentScores",
        pairs |-> MapPairs(res.alignmentScores, DOMAIN res.alignmentScores)],
       [kind |-> "EntropyMap", chunks |-> Len(res.entropyMap)] >>)

(***************************************************************************)
(* compareFiles (main.cpp:162-173)                                         *)
(***************************************************************************)
\* (long long)x of a size_t x: the value itself below 2^63, x - 2^64 from
\* there on.
ToLongLong(x) ==
  IF (x \div 2 ^ 30) \div 2 ^ 30 < 8 THEN x ELSE x - (2 ^ 32) * (2 ^ 32)

\* Faulty variant of Delta: the operands exchanged.
DeltaSwapped(r1, r2) == ToLongLong(r1.fileSize) - ToLongLong(r2.fileSize)

Delta(r1, r2) == ToLongLong(r2.fileSize) - ToLongLong(r1.fileSize)

compareFiles(r1, r2) ==
  << [kind |-> "DifferentialAnalysis",
      first |-> r1.filename, second |-> r2.filename] >>
  \o IF r1.fileSize # r2.fileSize
       THEN << [kind |-> "SizeDiff", size1 |-> r1.fileSize,
                size2 |-> r2.fileSize, delta |-> Delta(r1, r2)] >>
       ELSE << [kind |-> "SizeMatch"] >>

(***************************************************************************)
(* The files the environment may hold.                                     *)
(***************************************************************************)
\* Byte patterns the files repeat: constant bytes, the two uint32 values
\* 200000 and 5, the values 99999 and 100000 around the limit, a pattern of
\* period 3, 16 distinct bytes, all 256 bytes, and an irregular pattern
\* (the squares modulo 251) in which bytes repeat unevenly.
Motifs ==
  { <<0>>,
    <<255>>,
    <<64, 13, 3, 0, 5, 0, 0, 0>>,
    <<159, 134, 1, 0, 160, 134, 1, 0>>,
    <<0, 0, 1>>,
    [i \in 1 .. 16 |-> 16 * (i - 1)],
    [i \in 1 .. 256 |-> i - 1],
    [i \in 1 .. 61 |-> (i * i) % 251] }

\* The first n bytes of the motif m repeated.
Buffer(m, n) == [i \in 1 .. n |-> m[((i - 1) % Len(m)) + 1]]

Files(maxLen) == {FileOf(Buffer(m, n)) : m \in Motifs, n \in 0 .. maxLen}

\* argv[1] and argv[2].
argv1 == "first.bin"
argv2 == "second.bin"

(***************************************************************************)
(* main (main.cpp:175-192)                                                 *)
(***************************************************************************)
\* The value of a report variable that main has not constructed yet.
NotConstructed == DefaultResult(0)

Init ==
  /\ argc \in 0 .. MaxArgc
  /\ pc = "main"
  /\ result = NotConstructed
  /\ result2 = NotConstructed
  /\ stdout = <<>>
  /\ stderr = <<>>
  /\ exitCode = -1
  /\ calls = <<>>

\* Faulty variant of Usage: the test argc < 3.
UsageOffByOne ==
  /\ pc = "main"
  /\ argc < 3
  /\ stderr' = Append(stderr, [kind |-> "Usage"])
  /\ exitCode' = 1
  /\ pc' = "exited"
  /\ UNCHANGED <<argc, result, result2, stdout, calls>>

\* if (argc < 2) { std::cerr << "Usage: ..."; return 1; }
Usage ==
  /\ pc = "main"
  /\ argc < 2
  /\ stderr' = Append(stderr, [kind |-> "Usage"])
  /\ exitCode' = 1
  /\ pc' = "exited"
  /\ UNCHANGED <<argc, result, result2, stdout, calls>>

\* The garbage values to try for a file: fileSize is overwritten when the
\* file opens (main.cpp:114), so one value stands for all of them there.
GarbageFor(file) == IF file.opened THEN {0} ELSE Indeterminate

\* AnalysisResult result = analyzeFile(filepath);
AnalyzeFirst(files) ==
  /\ pc = "main"
  /\ argc >= 2
  /\ \E file \in files \cup {NoFile} : \E garbage \in GarbageFor(file) :
       /\ result' = analyzeFile(argv1, file, garbage)
       /\ stderr' = stderr \o analyzeFileErr(argv1, file)
  /\ calls' = Append(calls, [fn |-> "analyzeFile", path |-> argv1])
  /\ pc' = "print"
  /\ UNCHANGED <<argc, result2, stdout, exitCode>>

\* Faulty variant of PrintFirst: the test argc >= 3 before the second analysis is
\* dropped.
PrintFirstAlwaysSecond ==
  /\ pc = "print"
  /\ LET out == printAnalysis(result)
     IN  /\ stdout' = stdout \o out.lines
         /\ pc' = IF out.thrown THEN "terminated" ELSE "analyze2"
  /\ calls' = Append(calls, [fn |-> "printAnalysis", path |-> result.filename])
  /\ UNCHANGED <<argc, result, result2, stderr, exitCode>>

\* printAnalysis(result);
PrintFirst ==
  /\ pc = "print"
  /\ LET out == printAnalysis(result)
     IN  /\ stdout' = stdout \o out.lines
         /\ pc' = IF out.thrown THEN "terminated"
                  ELSE IF argc >= 3 THEN "analyze2" ELSE "return"
  /\ calls' = Append(calls, [fn |-> "printAnalysis", path |-> result.filename])
  /\ UNCHANGED <<argc, result, result2, stderr, exitCode>>

\* AnalysisResult result2 = analyzeFile(filepath2);
AnalyzeSecond(files) ==
  /\ pc = "analyze2"
  /\ \E file \in files \cup {NoFile} : \E garbage \in GarbageFor(file) :
       /\ result2' = analyzeFile(argv2, file, garbage)
       /\ stderr' = stderr \o analyzeFileErr(argv2, file)
  /\ calls' = Append(calls, [fn |-> "analyzeFile", path |-> argv2])
  /\ pc' = "compare"
  /\ UNCHANGED <<argc, result, stdout, exitCode>>

\* compareFiles(result, result2);
Compare ==
  /\ pc = "compare"
  /\ stdout' = stdout \o compareFiles(result, result2)
  /\ calls' = Append(calls, [fn |-> "compareFiles", path |-> result2.filename])
  /\ pc' = "return"
  /\ UNCHANGED <<argc, result, result2, stderr, exitCode>>

\* return 0;
Return0 ==
  /\ pc = "return"
  /\ exitCode' = 0
  /\ pc' = "exited"
  /\ UNCHANGED <<argc, result, result2, stdout, stderr, calls>>

\* Every run of the program, over files of up to MaxRunLen bytes.
Next ==
  \/ Usage
  \/ AnalyzeFirst(Files(MaxRunLen))
  \/ PrintFirst
  \/ AnalyzeSecond(Files(MaxRunLen))
  \/ Compare
  \/ Return0

Spec == Init /\ [][Next]_vars

\* The runs "analyzer <file_path>", over files of up to MaxLen bytes.
InitOneFile == Init /\ argc = 2

NextOneFile ==
  \/ AnalyzeFirst(Files(MaxLen))
  \/ PrintFirst
  \/ Return0

SpecOneFile == InitOneFile /\ [][NextOneFile]_vars

(***************************************************************************)
(* What the state records of a run.                                        *)
(***************************************************************************)
\* analyzeFile(path) has returned.
Produced(path) ==
  \E i \in DOMAIN calls : calls[i] = [fn |-> "analyzeFile", path |-> path]

\* analyzeFile(path) reported "Failed to open file: path".
Failed(path) ==
  \E i \in DOMAIN stderr : stderr[i] = [kind |-> "FailedToOpen", path |-> path]

\* The reports analyzeFile has returned so far, each with its path.
Reports ==
  (IF Produced(argv1) THEN {[path |-> argv1, report |-> result]} ELSE {})
  \cup
  (IF Produced(argv2) THEN {[path |-> argv2, report |-> result2]} ELSE {})

\* The reports of the files that opened.
OpenedReports == {r \in Reports : ~Failed(r.path)}

\* The lines of stdout of one kind, in order.
LinesOf(kind) == SelectSeq(stdout, LAMBDA l : l.kind = kind)

\* compareFiles has run.
Compared == \E i \in DOMAIN calls : calls[i].fn = "compareFiles"

\* Bytes data[lo] .. data[hi - 1] (source offsets) are all the same byte.
AllEqual(data, lo, hi) == \A i, j \in lo + 1 .. hi : data[i] = data[j]

(***************************************************************************)
(* C1.  Every report returned for a path that could not be opened has      *)
(* filename set to the path, fileSize = 0, an empty entropyMap and empty   *)
(* alignmentScores, and the call returns normally.                         *)
(***************************************************************************)
C1_FailedOpenZeroReport ==
  \A r \in Reports :
    Failed(r.path) =>
      /\ r.report.filename = r.path
      /\ r.report.fileSize = 0
      /\ r.report.entropyMap = <<>>
      /\ r.report.alignmentScores = <<>>
      /\ pc # "terminated"

(***************************************************************************)
(* C2.  A file of fileSize bytes that was read yields ceil(fileSize / 64)  *)
(* entropy entries; entry k is the entropy of the bytes at offsets         *)
(* [64k, min(64k + 64, fileSize)), so the chunks are consecutive, cover    *)
(* the buffer, and only the last may be shorter than 64 (length 1..64).    *)
(***************************************************************************)
C2_ChunkPartition ==
  \A r \in OpenedReports :
    LET n    == r.report.fileSize
        data == r.report.rawData
        map  == r.report.entropyMap
    IN  /\ n = Len(data)
        /\ Len(map) = (n + 63) \div 64
        /\ n = 0 => map = <<>>
        /\ \A k \in 0 .. Len(map) - 1 :
             LET lo == 64 * k
                 hi == Min(64 * k + 64, n)
             IN  /\ hi - lo \in 1 .. 64
                 /\ k < Len(map) - 1 => hi - lo = 64
                 /\ k = Len(map) - 1 => hi = n
                 /\ map[k + 1] = calculateEntropy(SubSeq(data, lo + 1, hi))

\* A 129-byte file was analysed into three chunks, the last of one byte.
C2_Witness ==
  /\ pc = "exited"
  /\ ~Failed(argv1)
  /\ result.fileSize = 129
  /\ Len(result.entropyMap) = 3

(***************************************************************************)
(* C3.  The stride-4 score equals the number of k in 0 .. floor(size/4)-1  *)
(* whose little-endian value data[4k] + 256 data[4k+1] + 65536 data[4k+2]  *)
(* + 16777216 data[4k+3] is below 100000; only those full windows are      *)
(* visited, and a buffer of fewer than 4 bytes scores 0 with no window.    *)
(***************************************************************************)
\* The little-endian value of window k is below 100000.  A nonzero top byte
\* alone contributes at least 16777216, so the sum is below 100000 exactly
\* when the top byte is 0 and the three low bytes sum below 100000.
WindowSmall(data, k) ==
  /\ data[4 * k + 4] = 0
  /\ data[4 * k + 1] + 256 * data[4 * k + 2] + 65536 * data[4 * k + 3] < 100000

C3_Stride4Score ==
  \A r \in OpenedReports :
    LET data == r.report.rawData
        full == Len(data) \div 4
        seen == AlignTrace(data, 4).windows
    IN  /\ r.report.alignmentScores[4]
             = Cardinality({k \in 0 .. full - 1 : WindowSmall(data, k)})
        /\ seen = {4 * k : k \in 0 .. full - 1}
        /\ \A i \in seen : i + 3 <= Len(data) - 1
        /\ Len(data) < 4 => r.report.alignmentScores[4] = 0 /\ seen = {}

\* The 8-byte buffer holding 200000 and 5 scored 1.
C3_Witness ==
  /\ pc = "exited"
  /\ ~Failed(argv1)
  /\ result.rawData = <<64, 13, 3, 0, 5, 0, 0, 0>>
  /\ result.alignmentScores[4] = 1

(***************************************************************************)
(* C4.  As claimed: in every report analyzeFile returns, for any input,    *)
(* strides 2 and 8 are keys of alignmentScores and both map to 0.          *)
(***************************************************************************)
StridesZero(report) ==
  /\ {2, 8} \subseteq DOMAIN report.alignmentScores
  /\ report.alignmentScores[2] = 0
  /\ report.alignmentScores[8] = 0

C4_EveryReportStridesZero == \A r \in Reports : StridesZero(r.report)

(***************************************************************************)
(* C4, amended.  In every report analyzeFile returns for a file that could *)
(* be opened, strides 2 and 8 are keys of alignmentScores and both map to  *)
(* 0 (the report of a failed open has no keys at all).                     *)
(***************************************************************************)
C4_OpenedReportStridesZero == \A r \in OpenedReports : StridesZero(r.report)

\* A file of two full windows scored 2 at stride 4 and 0 at strides 2 and 8.
C4_Witness ==
  \E r \in OpenedReports :
    /\ Len(r.report.rawData) >= 8
    /\ r.report.alignmentScores[4] = 2
    /\ StridesZero(r.report)

(***************************************************************************)
(* C5.  compareFiles reports equality exactly when the two fileSize are    *)
(* equal; otherwise it reports both sizes and the signed delta             *)
(* r2.fileSize - r1.fileSize, negative when the second file is smaller     *)
(* (sizes 100 and 220 give +120, 100 and 100 give a match).                *)
(***************************************************************************)
SizedReport(n) == [DefaultResult(n) EXCEPT !.filename = "sized"]

C5_CompareSizes ==
  /\ Compared =>
       LET head == stdout[Len(stdout) - 1]
           last == stdout[Len(stdout)]
       IN  /\ head = [kind |-> "DifferentialAnalysis",
                      first |-> result.filename, second |-> result2.filename]
           /\ (last.kind = "SizeMatch") <=> (result.fileSize = result2.fileSize)
           /\ result.fileSize # result2.fileSize =>
                /\ last = [kind  |-> "SizeDiff",
                           size1 |-> result.fileSize,
                           size2 |-> result2.fileSize,
                           delta |-> result2.fileSize - result.fileSize]
                /\ result2.fileSize < result.fileSize => last.delta < 0
  /\ compareFiles(SizedReport(100), SizedReport(220))[2]
       = [kind |-> "SizeDiff", size1 |-> 100, size2 |-> 220, delta |-> 120]
  /\ compareFiles(SizedReport(100), SizedReport(100))[2] = [kind |-> "SizeMatch"]

\* Two files that opened were compared and the second was the smaller.
C5_Witness ==
  /\ Compared
  /\ ~Failed(argv1) /\ ~Failed(argv2)
  /\ stdout[Len(stdout)].kind = "SizeDiff"
  /\ stdout[Len(stdout)].delta < 0

(***************************************************************************)
(* C6.  Run with two paths, a failure to open either file never aborts     *)
(* the run: the other file is still analysed, the first report rendered,   *)
(* the comparison performed with the zero-size report of the file that     *)
(* failed, and the exit status is 0.                                       *)
(***************************************************************************)
C6_OpenFailureLocal ==
  /\ pc # "terminated"
  /\ (argc >= 3 /\ pc = "exited" /\ (Failed(argv1) \/ Failed(argv2))) =>
       /\ exitCode = 0
       /\ Produced(argv1) /\ Produced(argv2)
       /\ LinesOf("File") = <<[kind |-> "File", filename |-> argv1]>>
       /\ Compared
       /\ Failed(argv1) => result.fileSize = 0
       /\ Failed(argv2) => result2.fileSize = 0

(***************************************************************************)
(* C7.  With no file-path argument the program writes the usage message    *)
(* to the error stream and exits with status 1 without calling             *)
(* analyzeFile, printAnalysis or compareFiles, so standard output stays    *)
(* empty; with one or more arguments it never takes this path.             *)
(***************************************************************************)
UsageLine == [kind |-> "Usage"]

C7_UsageExit ==
  /\ argc < 2 =>
       /\ calls = <<>>
       /\ stdout = <<>>
       /\ pc = "exited" => exitCode = 1 /\ stderr = <<UsageLine>>
  /\ argc >= 2 =>
       /\ \A i \in DOMAIN stderr : stderr[i] # UsageLine
       /\ exitCode # 1
       /\ pc = "exited" => exitCode = 0 /\ calls # <<>>

\* The program was run without a path and has exited with status 1.
C7_Witness ==
  /\ argc = 1
  /\ pc = "exited"
  /\ exitCode = 1
  /\ stderr = <<UsageLine>>

(***************************************************************************)
(* C8.  Every entry of the entropyMap of a non-empty buffer lies in        *)
(* [0.0, 8.0], and a chunk whose bytes are all equal has entropy 0.0.      *)
(***************************************************************************)
C8_EntropyRange ==
  \A r \in OpenedReports :
    LET data == r.report.rawData
        map  == r.report.entropyMap
    IN  \A k \in 0 .. Len(map) - 1 :
          /\ 0 <= map[k + 1]
          /\ map[k + 1] <= ToFloat(8)
          /\ AllEqual(data, 64 * k, Min(64 * k + 64, Len(data)))
               => map[k + 1] = 0

\* A file of 64 zero bytes and then 36 more was analysed: entropy 0.0 twice.
C8_Witness ==
  /\ pc = "exited"
  /\ ~Failed(argv1)
  /\ result.rawData = Buffer(<<0>>, 100)
  /\ result.entropyMap = <<0, 0>>

(***************************************************************************)
(* C9.  For every chunk i of a rendered report the line shows offset 64 i  *)
(* and a bar of exactly 10 characters, floor(entropy_i * 1.25) of them     *)
(* filled and the rest padding; the filled length is within 0 .. 10, so    *)
(* the padding length is never negative.                                   *)
(***************************************************************************)
Rendered ==
  \E i \in DOMAIN calls : calls[i].fn = "printAnalysis"

C9_BarGeometry ==
  /\ pc # "terminated"
  /\ Rendered =>
       LET bars == LinesOf("Chunk")
       IN  /\ Len(bars) = Len(result.entropyMap)
           /\ \A i \in 0 .. Len(bars) - 1 :
                LET line == bars[i + 1]
                    e    == result.entropyMap[i + 1]
                IN  /\ line.offset = 64 * i
                    /\ line.entropy = e
                    /\ line.filled = (5 * e) \div (4 * Scale)
                    /\ line.padding = 10 - line.filled
                    /\ line.filled + line.padding = 10
                    /\ line.filled \in 0 .. 10
                    /\ line.padding >= 0

\* A two-chunk report was rendered whose second bar, at offset 64, is
\* filled to 7 of 10 (entropy 6.0).
C9_Witness ==
  /\ pc = "exited"
  /\ Len(LinesOf("Chunk")) = 2
  /\ LinesOf("Chunk")[2].offset = 64
  /\ LinesOf("Chunk")[2].filled = 7
  /\ LinesOf("Chunk")[2].padding = 3

(***************************************************************************)
(* C10.  With at least one argument the steps occur in this order: the     *)
(* first file is loaded, its report rendered, and only then (when a second *)
(* path is given) the second file loaded and the sizes compared, as the    *)
(* last output; the second report is never rendered, and with exactly one  *)
(* argument there is no second load and no comparison.                     *)
(***************************************************************************)
FullOrder ==
  << [fn |-> "analyzeFile",   path |-> argv1],
     [fn |-> "printAnalysis", path |-> argv1],
     [fn |-> "analyzeFile",   path |-> argv2],
     [fn |-> "compareFiles",  path |-> argv2] >>

C10_CallOrder ==
  /\ Len(calls) <= Len(FullOrder)
  /\ calls = SubSeq(FullOrder, 1, Len(calls))
  /\ argc < 3 => Len(calls) <= 2
  /\ \A i \in DOMAIN stdout :
       stdout[i].kind = "File" => stdout[i].filename = argv1
  /\ (Produced(argv2) /\ ~Compared) => stdout = printAnalysis(result).lines
  /\ (pc = "exited" /\ argc = 2) =>
       /\ Len(calls) = 2
       /\ stdout = printAnalysis(result).lines
  /\ (pc = "exited" /\ argc >= 3) =>
       /\ calls = FullOrder
       /\ stdout = printAnalysis(result).lines \o compareFiles(result, result2)

\* A run with two paths has exited after all four steps.
C10_Witness ==
  /\ pc = "exited"
  /\ argc = 3
  /\ calls = FullOrder
  /\ stdout[Len(stdout)].kind \in {"SizeDiff", "SizeMatch"}

====
